---- MODULE Spec2Model ----
(***************************************************************************)
(* Model of the voltron broker (src/voltron.py): the debugger command      *)
(* object (VoltronCommand), the broker I/O thread (ServerThread.run), the  *)
(* listener (Server), the per-connection handler (ClientHandler), the      *)
(* global roster `clients` and the global dispatch `queue`; and of the     *)
(* file-bridge producer (GDB6Proxy), which pushes dumped files to a broker,*)
(* and of a subscriber (VoltronView with its Client).                      *)
(*                                                                         *)
(* The sockets are stream sockets: one recv() returns all the bytes that   *)
(* have arrived, which can be several records, and pickle.loads() decodes  *)
(* the first record of a byte string and ignores what follows it.          *)
(*                                                                         *)
(* Library behaviour the code relies on (Python 2 asyncore / socket):      *)
(*  - dispatcher.recv() calls handle_close() and returns '' on EOF;        *)
(*  - asyncore.read() catches an exception raised by handle_read() and     *)
(*    calls handle_error(), whose default logs and calls handle_close();   *)
(*  - dispatcher.send() returns 0 on EWOULDBLOCK, calls handle_close() on  *)
(*    a disconnect errno (EPIPE, ECONNRESET, EBADF, ...) and re-raises     *)
(*    anything else; send() on a socket that was already closed fails,     *)
(*    and handle_close() then runs clients.remove(self) a second time,     *)
(*    which raises ValueError.                                             *)
(***************************************************************************)
EXTENDS Integers, Sequences, FiniteSets, TLC

\* ------------------------------------------------------------------ bounds
MaxConns   == 2   \* connections ever accepted
MaxStarts  == 2   \* ServerThread objects ever created
MaxPushes  == 2   \* push_update records ever handled
MaxUpdates == 1   \* VoltronCommand.update() calls ever made
MaxInputs  == 7   \* debugger commands, accepts and records read, in total
MaxOdd     == 1   \* register files of one gdb6proxy run that differ from a good dump
MaxInbound == 3   \* records the broker ever writes to one subscriber


\* config['type'] values of a registration / update_type values of a push
Categories == {"register", "stack"}
\* config['update_on'] values: 'stop' is the only one update() serves
Triggers   == {"stop", "never"}
\* opaque data blobs carried by push_update records
DataVals   == {"d1", "d2"}
\* the blob VoltronCommand.update() reads from the debugger
Snapshot   == "snap"

None == [none |-> TRUE]

\* the config dicts register records carry
Registrations == [type : Categories, update_on : Triggers]

\* outcomes of one socket.send() on an open socket, as asyncore sees them
SendOutcomes == {"ok", "wouldblock", "disconnected"}

\* ------------------------------------------------------- GDB6Proxy data
\* GDB6Proxy.REGISTERS
REGISTERS == <<"rax", "rbx", "rcx", "rdx", "rbp", "rsp", "rdi", "rsi", "rip",
               "r8", "r9", "r10", "r11", "r12", "r13", "r14", "r15", "eflags">>

RegNames == {REGISTERS[i] : i \in DOMAIN REGISTERS}

\* args.type values: 'reg' and 'stack' are the two handle_connect knows
ProxyTypes == {"reg", "stack", "bt"}

\* a file under /tmp: absent (open() raises IOError), or its bytes
Missing    == [exists |-> FALSE, bytes |-> <<>>]
File(b)    == [exists |-> TRUE, bytes |-> b]

\* what a good dump holds for a register: 8 bytes, 4 for eflags
GoodFile(reg) ==
    IF reg = "eflags" THEN File(<<2, 0, 0, 0>>) ELSE File(<<1, 0, 0, 0, 0, 0, 0, 0>>)

\* other contents a register file can have
OddFiles ==
    {Missing, File(<<52, 18, 0, 0, 0, 0, 0, 0>>), File(<<70, 2, 0, 0>>), File(<<1, 2, 3>>),
     File(<<1, 2, 3, 4, 5, 6, 7, 200>>), File(<<>>)}

\* /tmp/voltron.stack
StackFiles == {Missing, File(<<65, 66>>)}

\* a value of the data dict: an integer, or the string '<fail>'
Val(n) == [ok |-> TRUE, val |-> n]
fail   == [ok |-> FALSE, val |-> 0]

\* An unsigned 64-bit integer is held as its three digits in base 2^24,
\* least significant first (the checker's integers are 32 bits wide).
DigitBytes == 3

\* struct.calcsize of the two formats read_registers and read_stack use
calcsize(fmt) == IF fmt = "<L" THEN 4 ELSE 8

\* the bytes read most significant first
RECURSIVE LittleEndian_mut_bigendian(_)
LittleEndian_mut_bigendian(b) ==
    IF b = <<>> THEN 0
    ELSE b[Len(b)] + 256 * LittleEndian_mut_bigendian(SubSeq(b, 1, Len(b) - 1))

\* the unsigned little-endian integer a byte string encodes
RECURSIVE LittleEndian(_)
LittleEndian(b) ==
    IF b = <<>> THEN 0 ELSE Head(b) + 256 * LittleEndian(Tail(b))

\* struct.unpack('<L', b) / struct.unpack('<Q', b) for a byte string of the
\* format's size: the value, as base-2^24 digits
unpack(b) ==
    LET padded == b \o [i \in 1..(8 - Len(b)) |-> 0]
    IN  [k \in 1..3 |->
            LittleEndian(SubSeq(padded, DigitBytes * (k - 1) + 1,
                                IF DigitBytes * k < 8 THEN DigitBytes * k ELSE 8))]

\* open(path, 'r+b') and struct.unpack(fmt, f.read()) succeed
Readable(fmt, f) == f.exists /\ Len(f.bytes) = calcsize(fmt)

\* the format read_registers unpacks the file of a register with
Format(reg) == IF reg = "eflags" THEN "<L" ELSE "<Q"

\* GDB6Proxy.read_registers: the body of the for loop, try and except
read_register(reg, f) ==
    IF Readable(Format(reg), f) THEN Val(unpack(f.bytes)) ELSE fail

\* GDB6Proxy.read_registers
read_registers(files) ==
    [msg_type |-> "push_update", update_type |-> "register",
     data |-> [r \in RegNames |-> read_register(r, files[r])]]

\* GDB6Proxy.read_stack raises: neither open() nor struct.unpack is guarded
read_stack_raises(files, stack) ==
    ~stack.exists \/ ~Readable("<Q", files["rsp"])

\* GDB6Proxy.read_stack, when it returns
read_stack(files, stack) ==
    [msg_type |-> "push_update", update_type |-> "stack",
     data |-> [sp |-> unpack(files["rsp"].bytes), data |-> stack.bytes]]

\* records and conditions the broker's end of the connection can make
\* readable for the proxy
Inbound == {"ack", "update", "garbage", "eof"}

\* one gdb6proxy process, after GDB6Proxy.__init__ (create_socket, connect)
Proxy(type, files, stack) ==
    [pc |-> "connecting", type |-> type, files |-> files, stack |-> stack,
     opened |-> 1, sent |-> <<>>, inbox |-> <<>>, got |-> <<>>, err |-> ""]

\* no gdb6proxy process runs
NoProxy ==
    [Proxy("reg", [r \in RegNames |-> GoodFile(r)], Missing) EXCEPT
        !.pc = "absent", !.opened = 0]

\* ------------------------------------------------------- VoltronView data
\* what the broker's end writes to a subscriber's socket: an update whose
\* data the view's render() can format or not, or bytes that are no pickle
Update(d, ok) == [kind |-> "update", data |-> d, renderable |-> ok]
Garbage       == [kind |-> "garbage", data |-> "", renderable |-> FALSE]
Deliveries    == {Update(d, ok) : d \in DataVals, ok \in BOOLEAN} \cup {Garbage}

\* the terminal before VoltronView.run, and after os.system('clear')
Untouched == "untouched"
Blank     == "blank"

\* one view process when VoltronView.connect is entered; config is
\* DEFAULT_CONFIG merged with the view's own config
View(config) ==
    [pc |-> "new", config |-> config, conn |-> "none", sent |-> <<>>,
     stream |-> <<>>, eof |-> FALSE, received |-> <<>>, renders |-> <<>>,
     screen |-> Untouched, left |-> MaxInbound, logged |-> 0]

\* no view process runs
NoView == [View([type |-> "register", update_on |-> "stop"]) EXCEPT !.pc = "absent"]

VARIABLES
    running,        \* VoltronCommand.running
    hooks,          \* the debugger stop hook is registered
    thread,         \* VoltronCommand.thread: index of the ServerThread, 0 = unset
    cpc,            \* position of the debugger (controlling / producer) thread
    tpc,            \* position of each ServerThread
    should_exit,    \* ServerThread._should_exit
    serv,           \* the Server (listening socket) of each ServerThread
    polled,         \* sockets served so far in the thread's current asyncore pass (0: the listener)
    status,         \* each ClientHandler's socket
    registration,   \* ClientHandler.registration
    clients,        \* the global roster
    queue,          \* the global dispatch queue
    held,           \* the (client, event) pairs threads have taken and not yet sent, oldest first
    inpush,         \* the push_update each thread is handling, between its puts and its ack
    budget,         \* inputs still to come: pushes, update() calls, inputs of any kind
    last,           \* the most recent operation and what it wrote
    proxy,          \* the gdb6proxy process: its arguments, files, position and traffic
    view            \* the view process: its Client, its terminal and its traffic

vars == <<running, hooks, thread, cpc, tpc, should_exit, serv, polled, status,
          registration, clients, queue, held, inpush, budget, last, proxy, view>>

\* the ServerThread objects and the connections of this run
Threads == DOMAIN tpc
Conns   == DOMAIN status

cmdVars  == <<running, hooks, thread, cpc>>
thrVars  == <<tpc, should_exit, serv, polled>>
connVars == <<status, registration, clients>>
peerVars == <<proxy, view>>
brokerVars == <<cmdVars, thrVars, connVars, queue, held, inpush, budget, last>>

\* ------------------------------------------------------------------ helpers
Range(s) == {s[i] : i \in 1..Len(s)}

\* list.remove(x) on a list that holds x
Remove(s, x) == SelectSeq(s, LAMBDA y : y # x)

NoWrites == <<>>

\* `touched` names the process-wide structures (clients, registration, queue)
\* an operation of the debugger thread read or wrote
Op(name, conn) ==
    [op |-> name, conn |-> conn, cat |-> "", data |-> "",
     writes |-> NoWrites, err |-> "", touched |-> {}, trigger |-> ""]

\* one call of dispatcher.send(): the record written, and how it went
Write(to, type, data, cat, tcat, src, outcome) ==
    [to |-> to, msg_type |-> type, data |-> data, cat |-> cat, tcat |-> tcat,
     src |-> src, outcome |-> outcome]

\* a queue item (client, event); cat, tcat, src and push are history fields:
\* the category the event was made for, the target's subscription category
\* when it was enqueued, and who enqueued it ("push" or "stop")
Item(c, data, cat, tcat, src) ==
    [client |-> c, data |-> data, cat |-> cat, tcat |-> tcat, src |-> src, push |-> 0]

RegType(c) == IF registration[c] = None THEN "" ELSE registration[c].type

\* one more input of the given kinds is consumed
CanSpend(kinds) == \A k \in kinds \cup {"inputs"} : budget[k] > 0
Spend(kinds) ==
    budget' = [k \in DOMAIN budget |->
                  IF k \in kinds \cup {"inputs"} THEN budget[k] - 1 ELSE budget[k]]

\* ------------------------------------------------------------------ Init

BrokerInitWith(starts, conns, pushes, updates, inputs) ==
    /\ running = FALSE
    /\ hooks = FALSE
    /\ thread = 0
    /\ cpc = "idle"
    /\ tpc = [t \in 1..starts |-> "unborn"]
    /\ should_exit = [t \in 1..starts |-> "unset"]
    /\ serv = [t \in 1..starts |-> "none"]
    /\ polled = [t \in 1..starts |-> {}]
    /\ status = [c \in 1..conns |-> "fresh"]
    /\ registration = [c \in 1..conns |-> None]
    /\ clients = <<>>
    /\ queue = <<>>
    /\ held = <<>>
    /\ inpush = [t \in 1..starts |-> None]
    /\ budget = [pushes |-> pushes, updates |-> updates, inputs |-> inputs]
    /\ last = Op("init", 0)

InitWith(starts, conns, pushes, updates, inputs) ==
    /\ BrokerInitWith(starts, conns, pushes, updates, inputs)
    /\ proxy = NoProxy
    /\ view = NoView

Init == InitWith(MaxStarts, MaxConns, MaxPushes, MaxUpdates, MaxInputs)

\* ------------------------------------------------- VoltronCommand (debugger thread)
\* VoltronCommand.start
start ==
    /\ cpc = "idle"
    /\ CanSpend({})
    /\ Spend({})
    /\ IF ~running
         THEN /\ \E t \in Threads :
                   /\ tpc[t] = "unborn"
                   /\ \A u \in Threads : u < t => tpc[u] # "unborn"
                   /\ thread' = t
                   /\ tpc' = [tpc EXCEPT ![t] = "start"]
                   /\ last' = Op("start", 0)
              /\ running' = TRUE
              /\ hooks' = TRUE
         ELSE /\ UNCHANGED <<running, hooks, thread, tpc>>
              /\ last' = [Op("start", 0) EXCEPT !.err = "Already running"]
    /\ UNCHANGED <<cpc, should_exit, serv, polled, connVars, queue>>
    /\ UNCHANGED <<held, inpush, peerVars>>

\* stop without its `if self.running` test
stop_mut_noguard ==
    /\ cpc = "idle"
    /\ CanSpend({})
    /\ Spend({})
    /\ hooks' = FALSE
    /\ IF thread = 0 \/ (thread # 0 /\ tpc[thread] = "start")
         THEN /\ UNCHANGED <<cpc, should_exit>>
              /\ last' = [Op("stop", 0) EXCEPT !.err = "AttributeError"]
         ELSE /\ should_exit' = [should_exit EXCEPT ![thread] = "True"]
              /\ cpc' = "join"
              /\ last' = Op("stop", 0)
    /\ UNCHANGED <<running, thread, tpc, serv, polled, connVars, queue>>
    /\ UNCHANGED <<held, inpush, peerVars>>

\* VoltronCommand.stop, up to and including set_should_exit(True).
\* ServerThread.lock is created inside run(): before that,
\* set_should_exit raises AttributeError and stop() is abandoned.
stop ==
    /\ cpc = "idle"
    /\ CanSpend({})
    /\ Spend({})
    /\ IF running
         THEN /\ hooks' = FALSE
              /\ IF tpc[thread] = "start"
                   THEN /\ UNCHANGED <<cpc, should_exit>>
                        /\ last' = [Op("stop", 0) EXCEPT !.err = "AttributeError"]
                   ELSE /\ should_exit' = [should_exit EXCEPT ![thread] = "True"]
                        /\ cpc' = "join"
                        /\ last' = Op("stop", 0)
         ELSE /\ UNCHANGED <<hooks, cpc, should_exit>>
              /\ last' = [Op("stop", 0) EXCEPT !.err = "Not running"]
    /\ UNCHANGED <<running, thread, tpc, serv, polled, connVars, queue>>
    /\ UNCHANGED <<held, inpush, peerVars>>

\* threading.Thread.isAlive
isAlive(t) == tpc[t] \notin {"unborn", "exited", "crashed"}

\* VoltronCommand.stop from thread.join(10) on: join returns when the thread
\* has ended, or after its timeout while the thread is still alive.
stop_join ==
    /\ cpc = "join"
    /\ cpc' = "idle"
    /\ running' = FALSE
    /\ last' = [Op("join", 0) EXCEPT
                   !.err = IF isAlive(thread) THEN "Failed to stop voltron" ELSE ""]
    /\ UNCHANGED <<hooks, thread, thrVars, connVars,
                   queue, budget>>
    /\ UNCHANGED <<held, inpush, peerVars>>

\* VoltronCommand.update: the clients the for loop serves
update_targets ==
    SelectSeq(clients, LAMBDA c : registration[c].update_on = "stop")

\* VoltronCommand.update: the (client, event) pairs put on the queue, each
\* carrying the debugger data of the client's own registration type
update_events ==
    LET tg == update_targets
    IN  [i \in 1..Len(tg) |-> Item(tg[i], Snapshot, RegType(tg[i]), RegType(tg[i]), "stop")]

\* VoltronCommand.update: the filter walks clients and reads the registration
\* of each; queue.put runs once per client served
update_touched ==
    {"clients"}
      \cup (IF clients = <<>> THEN {} ELSE {"registration"})
      \cup (IF (\A c \in Range(clients) : registration[c] # None) /\ update_targets # <<>>
              THEN {"queue"} ELSE {})

\* VoltronCommand.update. The filter reads registration['config'] of every
\* client in the roster, which raises TypeError when a client has not
\* registered yet (registration is None); nothing has been put by then.
update ==
    /\ cpc = "idle"
    /\ CanSpend({"updates"})
    /\ Spend({"updates"})
    /\ IF \E c \in Range(clients) : registration[c] = None
         THEN /\ UNCHANGED queue
              /\ last' = [Op("update", 0) EXCEPT !.err = "TypeError",
                                                 !.touched = update_touched]
         ELSE /\ queue' = queue \o update_events
              /\ last' = [Op("update", 0) EXCEPT !.touched = update_touched]
    /\ UNCHANGED <<running, hooks, thread, cpc, thrVars, connVars>>
    /\ UNCHANGED <<held, inpush, peerVars>>

\* VoltronCommand.status: what it reads when the broker is running
status_touched ==
    {"clients"} \cup (IF clients = <<>> THEN {} ELSE {"registration"})

\* VoltronCommand.status: len(clients), then registration['config'] of every
\* client of the roster, which raises TypeError at the first client that has
\* not registered; "Not running" otherwise
status_cmd ==
    /\ cpc = "idle"
    /\ CanSpend({})
    /\ Spend({})
    /\ last' = IF ~running
                 THEN [Op("status", 0) EXCEPT !.err = "Not running"]
                 ELSE [Op("status", 0) EXCEPT
                          !.touched = status_touched,
                          !.err = IF \E c \in Range(clients) : registration[c] = None
                                    THEN "TypeError" ELSE ""]
    /\ UNCHANGED <<cmdVars, thrVars, connVars, queue>>
    /\ UNCHANGED <<held, inpush, peerVars>>

\* ------------------------------------------------- ServerThread (broker I/O thread)
\* ServerThread.run: serv = Server(SOCK); self.lock = threading.Lock()
run_init(t) ==
    /\ tpc[t] = "start"
    /\ tpc' = [tpc EXCEPT ![t] = "locked"]
    /\ serv' = [serv EXCEPT ![t] = "open"]
    /\ last' = Op("run", 0)
    /\ UNCHANGED <<cmdVars, should_exit, polled, connVars, queue, budget>>
    /\ UNCHANGED <<held, inpush, peerVars>>

\* ServerThread.run: self.set_should_exit(False)
run_clear_flag(t) ==
    /\ tpc[t] = "locked"
    /\ tpc' = [tpc EXCEPT ![t] = "check"]
    /\ should_exit' = [should_exit EXCEPT ![t] = "False"]
    /\ last' = Op("run", 0)
    /\ UNCHANGED <<cmdVars, serv, polled, connVars, queue, budget>>
    /\ UNCHANGED <<held, inpush, peerVars>>

\* ServerThread.run: the test of `while not self.should_exit()`, and
\* serv.close() once it fails
loop_test(t) ==
    IF should_exit[t] = "True"
      THEN /\ tpc' = [tpc EXCEPT ![t] = "exited"]
           /\ serv' = [serv EXCEPT ![t] = "closed"]
           /\ last' = Op("run_exit", 0)
      ELSE /\ tpc' = [tpc EXCEPT ![t] = "poll"]
           /\ serv' = serv
           /\ last' = Op("run", 0)

\* ServerThread.run: the first test of the loop condition
run_check(t) ==
    /\ tpc[t] = "check"
    /\ loop_test(t)
    /\ UNCHANGED <<cmdVars, should_exit, polled, connVars, queue, budget>>
    /\ UNCHANGED <<held, inpush, peerVars>>

\* the end of asyncore.loop(count=1, timeout=0.1)
run_poll_done(t) ==
    /\ tpc[t] = "poll"
    /\ tpc' = [tpc EXCEPT ![t] = "drain"]
    /\ polled' = [polled EXCEPT ![t] = {}]
    /\ last' = Op("run", 0)
    /\ UNCHANGED <<cmdVars, should_exit, serv, connVars, queue, budget>>
    /\ UNCHANGED <<held, inpush, peerVars>>

\* the Server a new connection reaches: the one bound last to SOCK
Bound == {t \in Threads : serv[t] # "none"}
Listening == Bound # {} /\ serv[CHOOSE t \in Bound : \A u \in Bound : u <= t] = "open"

\* an accept that takes a handler object back into use once it is closed
handle_accept_mut_reuse(t) ==
    /\ tpc[t] = "poll"
    /\ 0 \notin polled[t]
    /\ polled' = [polled EXCEPT ![t] = @ \cup {0}]
    /\ Listening
    /\ \E c \in Conns :
         /\ status[c] # "open"
         /\ \A d \in Conns : d < c => status[d] = "open"
         /\ status' = [status EXCEPT ![c] = "open"]
         /\ clients' = Append(clients, c)
         /\ last' = Op("handle_accept", c)
    /\ CanSpend({})
    /\ Spend({})
    /\ UNCHANGED <<cmdVars, tpc, should_exit, serv, registration, queue>>
    /\ UNCHANGED <<held, inpush, peerVars>>

\* Server.handle_accept
handle_accept(t) ==
    /\ tpc[t] = "poll"
    /\ 0 \notin polled[t]
    /\ polled' = [polled EXCEPT ![t] = @ \cup {0}]
    /\ Listening
    /\ \E c \in Conns :
         /\ status[c] = "fresh"
         /\ \A d \in Conns : d < c => status[d] # "fresh"
         /\ status' = [status EXCEPT ![c] = "open"]
         /\ clients' = Append(clients, c)
         /\ last' = Op("handle_accept", c)
    /\ CanSpend({})
    /\ Spend({})
    /\ UNCHANGED <<cmdVars, tpc, should_exit, serv, registration, queue>>
    /\ UNCHANGED <<held, inpush, peerVars>>

\* ------------------------------------------------- ClientHandler
\* records a peer can make readable on its connection
Rec(kind, type, update_on, data) ==
    [kind |-> kind, type |-> type, update_on |-> update_on, data |-> data]

Records ==
    {Rec(k, "", "", "") : k \in {"eof", "blank", "garbage", "other"}}
    \cup {Rec("register", r.type, r.update_on, "") : r \in Registrations}
    \cup {Rec("push_update", c, "", d) : c \in Categories, d \in DataVals}

\* ClientHandler.handle_close: self.close(); clients.remove(self)
handle_close(c) ==
    /\ status' = [status EXCEPT ![c] = "closed"]
    /\ clients' = Remove(clients, c)

\* a second register record that merges into the registration held
handle_register_mut_keeptrigger(c, msg) ==
    /\ registration' = [registration EXCEPT
                           ![c] = [type |-> msg.type,
                                   update_on |-> IF registration[c] = None
                                                   THEN msg.update_on
                                                   ELSE registration[c].update_on]]
    /\ UNCHANGED <<status, clients, queue>>

\* ClientHandler.handle_register
handle_register(c, msg) ==
    /\ registration' = [registration EXCEPT
                           ![c] = [type |-> msg.type, update_on |-> msg.update_on]]
    /\ UNCHANGED <<status, clients, queue>>

\* the for loop without the comparison of the registration type
push_targets_mut_nofilter(msg) ==
    SelectSeq(clients, LAMBDA x : registration[x] # None)

\* ClientHandler.handle_push_update: the clients the for loop puts an event for
push_targets(msg) ==
    SelectSeq(clients, LAMBDA x : registration[x] # None /\ registration[x].type = msg.type)

\* the event built without msg['data']
push_events_mut_nodata(msg) ==
    LET tg == push_targets(msg)
    IN  [i \in 1..Len(tg) |-> Item(tg[i], "", msg.type, RegType(tg[i]), "push")]

\* ClientHandler.handle_push_update: the (client, event) pairs put on the queue
push_events(msg) ==
    LET tg == push_targets(msg)
    IN  [i \in 1..Len(tg) |->
            [Item(tg[i], msg.data, msg.type, RegType(tg[i]), "push") EXCEPT
                !.push = budget.pushes]]

\* the ack sent inside the for loop, once per matching client
push_acks_mut_perclient(c, msg, outcome) ==
    [i \in 1..Len(push_targets(msg)) |-> Write(c, "ack", "", "", "", "push", outcome)]

\* ClientHandler.handle_push_update: the records sent back to the sender
push_acks(c, msg, outcome) ==
    <<Write(c, "ack", "", "", "", "push", outcome)>>

\* ClientHandler.handle_push_update: the for loop, which puts the events
handle_push_update(c, msg) ==
    /\ queue' = queue \o push_events(msg)
    /\ UNCHANGED <<status, registration, clients>>

\* ClientHandler.handle_push_update: the ack, sent after the for loop.
\* If the sender's socket has been closed meanwhile, send() fails,
\* handle_close() runs again and clients.remove(self) raises.
push_ack(t) ==
    /\ tpc[t] = "ack"
    /\ inpush' = [inpush EXCEPT ![t] = None]
    /\ LET c   == inpush[t].conn
           msg == inpush[t].msg
       IN  IF status[c] = "closed"
             THEN /\ tpc' = [tpc EXCEPT ![t] = "crashed"]
                  /\ UNCHANGED <<status, clients>>
                  /\ last' = [Op("push_ack", c) EXCEPT
                                 !.cat = msg.type, !.data = msg.data,
                                 !.err = "ValueError",
                                 !.writes = push_acks(c, msg, "closed")]
             ELSE \E outcome \in SendOutcomes :
                  /\ tpc' = [tpc EXCEPT ![t] = "poll"]
                  /\ IF outcome = "disconnected"
                       THEN handle_close(c)
                       ELSE UNCHANGED <<status, clients>>
                  /\ last' = [Op("push_ack", c) EXCEPT
                                 !.cat = msg.type, !.data = msg.data,
                                 !.writes = push_acks(c, msg, outcome)]
    /\ UNCHANGED <<cmdVars, should_exit, serv, polled, registration, queue, held, budget>>
    /\ UNCHANGED peerVars

\* an unknown msg_type treated as fatal for the connection
handle_other_mut_close(c) ==
    /\ handle_close(c)
    /\ UNCHANGED <<registration, queue>>

\* ClientHandler.handle_read: the else branch, for a msg_type that is neither
\* 'register' nor 'push_update': log.error and nothing more
handle_other(c) ==
    UNCHANGED <<status, registration, clients, queue>>

\* ClientHandler.handle_read, run by asyncore.loop on a readable connection
handle_read(t, c) ==
    /\ tpc[t] = "poll"
    /\ status[c] = "open"
    /\ c \notin polled[t]
    /\ polled' = [polled EXCEPT ![t] = @ \cup {c}]
    /\ \E msg \in Records :
         /\ LET kinds == IF msg.kind = "push_update" THEN {"pushes"} ELSE {}
            IN  CanSpend(kinds) /\ Spend(kinds)
         /\ CASE msg.kind = "eof" ->
                   \* recv() saw end of file and called handle_close()
                   /\ handle_close(c)
                   /\ UNCHANGED <<registration, queue>>
                   /\ last' = Op("handle_read_eof", c)
              [] msg.kind = "blank" ->
                   /\ UNCHANGED <<connVars, queue>>
                   /\ last' = Op("handle_read_blank", c)
              [] msg.kind = "garbage" ->
                   \* pickle.loads fails, the except clause logs, and
                   \* msg['msg_type'] then reads the unbound local msg:
                   \* asyncore catches that and calls handle_close()
                   /\ handle_close(c)
                   /\ UNCHANGED <<registration, queue>>
                   /\ last' = [Op("handle_read_garbage", c) EXCEPT
                                  !.err = "UnboundLocalError"]
              [] msg.kind = "register" ->
                   /\ handle_register(c, msg)
                   /\ last' = [Op("handle_register", c) EXCEPT
                                  !.cat = msg.type, !.trigger = msg.update_on]
              [] msg.kind = "push_update" ->
                   \* the for loop has run; self.send is still to come
                   /\ handle_push_update(c, msg)
                   /\ last' = [Op("handle_push_update", c) EXCEPT
                                  !.cat = msg.type, !.data = msg.data]
              [] msg.kind = "other" ->
                   /\ handle_other(c)
                   /\ last' = [Op("handle_read_other", c) EXCEPT
                                  !.err = "Invalid message type"]
         /\ IF msg.kind = "push_update"
              THEN /\ tpc' = [tpc EXCEPT ![t] = "ack"]
                   /\ inpush' = [inpush EXCEPT
                                    ![t] = [conn |-> c, msg |-> msg, id |-> budget.pushes]]
              ELSE UNCHANGED <<tpc, inpush>>
    /\ UNCHANGED <<cmdVars, should_exit, serv>>
    /\ UNCHANGED <<held, peerVars>>

\* ServerThread.run: one turn of `while not queue.empty()`, up to
\* client, event = queue.get()
run_drain(t) ==
    /\ tpc[t] = "drain"
    /\ IF queue = <<>>
         THEN \* the queue is empty: back to the test of the outer loop
              /\ loop_test(t)
              /\ UNCHANGED <<queue, held>>
         ELSE /\ queue' = Tail(queue)
              /\ held' = Append(held, [thread |-> t, item |-> Head(queue)])
              /\ tpc' = [tpc EXCEPT ![t] = "send"]
              /\ last' = Op("run", 0)
              /\ UNCHANGED serv
    /\ UNCHANGED <<cmdVars, should_exit, polled, connVars, budget>>
    /\ UNCHANGED <<inpush, peerVars>>

\* the pair thread t has taken from the queue
Held(t) == (CHOOSE h \in Range(held) : h.thread = t).item

\* ServerThread.run: client.send_event(event) for the pair taken
send_event(t) ==
    /\ tpc[t] = "send"
    /\ held' = SelectSeq(held, LAMBDA h : h.thread # t)
    /\ LET it == Held(t)
           c  == it.client
       IN  IF status[c] = "closed"
             THEN \* send() fails on the closed socket, handle_close()
                  \* runs again and clients.remove(self) raises
                  /\ tpc' = [tpc EXCEPT ![t] = "crashed"]
                  /\ UNCHANGED <<status, clients>>
                  /\ last' = [Op("send_event", c) EXCEPT
                                 !.cat = it.cat, !.data = it.data,
                                 !.err = "ValueError",
                                 !.writes = <<Write(c, "update", it.data, it.cat,
                                                    it.tcat, it.src, "closed")>>]
             ELSE \E outcome \in SendOutcomes :
                  /\ tpc' = [tpc EXCEPT ![t] = "drain"]
                  /\ IF outcome = "disconnected"
                       THEN handle_close(c)
                       ELSE UNCHANGED <<status, clients>>
                  /\ last' = [Op("send_event", c) EXCEPT
                                 !.cat = it.cat, !.data = it.data,
                                 !.writes = <<Write(c, "update", it.data, it.cat,
                                                    it.tcat, it.src, outcome)>>]
    /\ UNCHANGED <<cmdVars, should_exit, serv, polled, registration, queue, budget>>
    /\ UNCHANGED <<inpush, peerVars>>

\* ------------------------------------------------- specification
Next ==
    \/ start
    \/ stop
    \/ stop_join
    \/ update
    \/ status_cmd
    \/ \E t \in Threads : run_init(t)
    \/ \E t \in Threads : run_clear_flag(t)
    \/ \E t \in Threads : run_check(t)
    \/ \E t \in Threads : handle_accept(t)
    \/ \E t \in Threads, c \in Conns : handle_read(t, c)
    \/ \E t \in Threads : run_poll_done(t)
    \/ \E t \in Threads : push_ack(t)
    \/ \E t \in Threads : run_drain(t)
    \/ \E t \in Threads : send_event(t)

Spec == Init /\ [][Next]_vars

TypeOK ==
    /\ running \in BOOLEAN
    /\ hooks \in BOOLEAN
    /\ thread \in {0} \cup Threads
    /\ cpc \in {"idle", "join"}
    /\ \A k \in DOMAIN budget : budget[k] \in Nat
    /\ \A t \in Threads : should_exit[t] \in {"unset", "True", "False"}

\* ------------------------------------------------- GDB6Proxy (file bridge)
\* the register files of one dump: at most MaxOdd of them differ from a
\* good dump
Dumps ==
    UNION {
      UNION { {[r \in RegNames |-> IF r \in S THEN odd[r] ELSE GoodFile(r)]} :
                odd \in [S -> OddFiles] } :
        S \in {T \in SUBSET RegNames : Cardinality(T) <= MaxOdd} }

\* one run of `voltron.py gdb6proxy <type>`, after GDB6Proxy.__init__
BridgeInit ==
    /\ BrokerInitWith(MaxStarts, MaxConns, MaxPushes, MaxUpdates, MaxInputs)
    /\ \E type \in ProxyTypes, files \in Dumps, stack \in StackFiles :
          proxy = Proxy(type, files, stack)
    /\ view = NoView

\* GDB6Proxy.handle_connect. An exception leaves it before self.send():
\* read_stack raising, or `event` unbound after "Invalid proxy type";
\* the socket is then closed with nothing sent.
GDB6Proxy_handle_connect ==
    /\ proxy.pc = "connecting"
    /\ proxy' =
          CASE proxy.type = "reg" ->
                 [proxy EXCEPT !.pc = "connected",
                               !.sent = Append(@, read_registers(proxy.files))]
            [] proxy.type = "stack" ->
                 IF read_stack_raises(proxy.files, proxy.stack)
                   THEN [proxy EXCEPT !.pc = "closed",
                            !.err = IF proxy.stack.exists /\ proxy.files["rsp"].exists
                                      THEN "struct.error" ELSE "IOError"]
                   ELSE [proxy EXCEPT !.pc = "connected",
                            !.sent = Append(@, read_stack(proxy.files, proxy.stack))]
            [] OTHER ->
                 [proxy EXCEPT !.pc = "closed", !.err = "UnboundLocalError"]
    /\ UNCHANGED <<brokerVars, view>>

\* the broker's end of the connection: the ack of handle_push_update,
\* another record, bytes that are no pickle, or the end of the stream
peer_reply ==
    /\ proxy.pc = "connected"
    /\ proxy.inbox = <<>>
    /\ \E k \in Inbound : proxy' = [proxy EXCEPT !.inbox = <<k>>]
    /\ UNCHANGED <<brokerVars, view>>

\* GDB6Proxy.handle_read: recv, pickle.loads, log.error unless the record is
\* an ack, self.close(). When pickle.loads raises (no pickle, or '' at the
\* end of the stream) asyncore's handle_error closes the socket.
GDB6Proxy_handle_read ==
    /\ proxy.pc = "connected"
    /\ proxy.inbox # <<>>
    /\ LET k == Head(proxy.inbox)
       IN  proxy' = [proxy EXCEPT
                       !.pc = "closed",
                       !.inbox = <<>>,
                       !.got = Append(@, k),
                       !.err = CASE k = "ack" -> ""
                                 [] k = "update" -> "Did not get ack"
                                 [] k = "garbage" -> "UnpicklingError"
                                 [] k = "eof" -> "EOFError"]
    /\ UNCHANGED <<brokerVars, view>>

BridgeNext ==
    \/ GDB6Proxy_handle_connect
    \/ peer_reply
    \/ GDB6Proxy_handle_read

BridgeSpec == BridgeInit /\ [][BridgeNext]_vars

\* ------------------------------------------------- VoltronView / Client (subscriber)
\* one view process, about to connect
ViewInit ==
    /\ BrokerInitWith(MaxStarts, MaxConns, MaxPushes, MaxUpdates, MaxInputs)
    /\ proxy = NoProxy
    /\ \E config \in Registrations : view = View(config)

\* VoltronView.connect: Client(view=self, config=self.config), which
\* connects to SOCK, then Client.register, which sends the register record
VoltronView_connect ==
    /\ view.pc = "new"
    /\ view' = [view EXCEPT
                   !.pc = "registered",
                   !.conn = "open",
                   !.sent = Append(@, Rec("register", view.config.type,
                                          view.config.update_on, ""))]
    /\ UNCHANGED <<brokerVars, proxy>>

\* VoltronView.run: os.system('clear'), then asyncore.loop()
VoltronView_run ==
    /\ view.pc = "registered"
    /\ view' = [view EXCEPT !.pc = "loop", !.screen = Blank]
    /\ UNCHANGED <<brokerVars, proxy>>

\* ClientHandler.send_event at the broker's end (or any other bytes written
\* there): one more record arrives on the subscriber's socket
broker_send ==
    /\ view.conn = "open"
    /\ ~view.eof
    /\ view.left > 0
    /\ \E r \in Deliveries :
          view' = [view EXCEPT !.stream = Append(@, r), !.left = @ - 1]
    /\ UNCHANGED <<brokerVars, proxy>>

\* the broker's end of the connection is closed
broker_close ==
    /\ view.conn = "open"
    /\ ~view.eof
    /\ view' = [view EXCEPT !.eof = TRUE]
    /\ UNCHANGED <<brokerVars, proxy>>

\* a concrete view's render(msg): self.clear() first, then the data is
\* formatted and printed, which raises for data of the wrong shape
render(v, msg) ==
    [v EXCEPT !.renders = Append(@, msg),
              !.screen = IF msg.renderable THEN msg.data ELSE Blank,
              !.logged = IF msg.renderable THEN @ ELSE @ + 1]

\* Client.handle_read, run by asyncore.loop when the socket is readable:
\* data = self.recv(READ_MAX) is everything that has arrived; pickle.loads
\* decodes its first record; the bare except logs whatever was raised.
\* At the end of the stream recv() has closed the socket and returns ''.
Client_handle_read ==
    /\ view.pc = "loop"
    /\ view.conn = "open"
    /\ view.stream # <<>> \/ view.eof
    /\ LET data == view.stream
           v    == [view EXCEPT !.stream = <<>>,
                                !.received = @ \o data]
       IN  view' =
             IF data = <<>>
               THEN [v EXCEPT !.conn = "closed", !.pc = "done", !.logged = @ + 1]
             ELSE IF Head(data).kind = "garbage"
               THEN [v EXCEPT !.logged = @ + 1]
             ELSE render(v, Head(data))
    /\ UNCHANGED <<brokerVars, proxy>>

ViewNext ==
    \/ VoltronView_connect
    \/ VoltronView_run
    \/ broker_send
    \/ broker_close
    \/ Client_handle_read

ViewSpec == ViewInit /\ [][ViewNext]_vars

\* ------------------------------------------------- claims
\* the records the most recent operation handed to dispatcher.send()
LastWrites == {last.writes[i] : i \in DOMAIN last.writes}

\* C1: no cross-category leakage. Every update that comes from a push of
\* category C and is sent to connection X was enqueued while X's subscription
\* category was C; a connection of another category, or one that had not
\* registered, is never sent it.
C1_NoCrossCategoryLeakage ==
    \A w \in LastWrites :
        (w.msg_type = "update" /\ w.src = "push") =>
            /\ w.cat \in Categories
            /\ w.tcat = w.cat

\* C1 witness: a pushed update has been written to one subscriber while
\* another connection of the roster is subscribed to the other category.
C1_Witness ==
    \E w \in LastWrites :
        /\ w.msg_type = "update" /\ w.src = "push" /\ w.outcome = "ok"
        /\ \E y \in Range(clients) :
              y # w.to /\ registration[y] # None /\ registration[y].type # w.cat

\* C2: fan-out completeness. Handling push_update(C, D) appends to the queue
\* exactly one event for each connection of the roster whose subscription
\* category is C (the sender included), carrying D, and nothing for any
\* other connection; what was queued before stays in place.
C2_FanOutComplete ==
    [][last'.op = "handle_push_update" =>
         LET n     == Len(queue)
             added == SubSeq(queue', n + 1, Len(queue'))
         IN  /\ Len(queue') >= n
             /\ SubSeq(queue', 1, n) = queue
             /\ \A c \in Conns :
                  Cardinality({i \in DOMAIN added : added[i].client = c})
                    = IF /\ c \in Range(clients)
                         /\ registration[c] # None
                         /\ registration[c].type = last'.cat
                        THEN 1 ELSE 0
             /\ \A i \in DOMAIN added : added[i].data = last'.data
       ]_vars

\* C2 witness: a push has just been handled while both connections of the
\* roster, the sender among them, were subscribed to its category.
C2_Witness ==
    /\ last.op = "handle_push_update"
    /\ Len(clients) = 2
    /\ \A c \in Range(clients) : RegType(c) = last.cat
    /\ Len(queue) >= 2
    /\ queue[Len(queue)].client # queue[Len(queue) - 1].client
    /\ queue[Len(queue)].data = last.data

C4_ClosedTargetDropped ==
    \A w \in LastWrites :
        (last.op = "send_event" /\ w.outcome = "closed") =>
            /\ last.err = ""
            /\ \A t \in Threads : tpc[t] # "crashed"

\* C5: an undeserializable record leaves the sending connection open and in
\* the roster.
C5_GarbageKeepsConnection ==
    last.op = "handle_read_garbage" =>
        /\ status[last.conn] = "open"
        /\ last.conn \in Range(clients)
        /\ last.err = ""

\* C6: once a connection has re-registered, it is never again written an
\* update of the category it left: every update written to a connection
\* belongs to the connection's subscription category at that moment.
C6_NoStaleDelivery ==
    \A w \in LastWrites :
        (w.msg_type = "update" /\ w.outcome = "ok") => w.cat = RegType(w.to)

\* C7: stop on a broker that is not running changes nothing: the running
\* flag, the hooks, the thread and its shutdown flag, the listener, the
\* connections, the roster and the queue stay as they were.
C7_StopIdempotent ==
    [][(last'.op = "stop" /\ ~running) =>
          /\ last'.err = "Not running"
          /\ UNCHANGED <<running, hooks, thread, cpc, tpc, should_exit, serv,
                         polled, status, registration, clients, queue>>
      ]_vars

\* C7 witness: a second stop has been issued after a stop that went through
\* its join, while the thread it had asked to exit is still alive.
C7_Witness ==
    /\ last.op = "stop"
    /\ last.err = "Not running"
    /\ thread # 0
    /\ isAlive(thread)

\* the steps of one ServerThread
ThreadStep(t) ==
    \/ run_init(t)
    \/ run_clear_flag(t)
    \/ run_check(t)
    \/ run_poll_done(t)
    \/ push_ack(t)
    \/ run_drain(t)
    \/ send_event(t)

\* the broker under fair scheduling: a thread that can take a step of run()
\* eventually takes one, and a pending join eventually returns
FairSpec ==
    /\ Spec
    /\ \A t \in 1..MaxStarts : WF_vars(ThreadStep(t))
    /\ WF_vars(stop_join)

\* C8: stop on a running broker makes its I/O thread leave the loop and
\* close the listening endpoint, under fair scheduling.
C8_StopCausesExit ==
    \A t \in 1..MaxStarts :
        (last.op = "stop" /\ last.err # "Not running" /\ thread = t)
            ~> (tpc[t] = "exited" /\ serv[t] = "closed")

\* C9: once the I/O thread has exited after a stop (and no other broker
\* thread is alive), no connection is still open.
C9_ShutdownClosesConnections ==
    ((\E t \in Threads : tpc[t] = "exited") /\ (\A t \in Threads : ~isAlive(t)))
        => \A c \in Conns : status[c] # "open"

\* C10: the I/O thread leaves its loop only because the shutdown flag was
\* set; no error on a connection ends it.
C10_LoopEndsOnlyOnShutdown ==
    \A t \in Threads :
        tpc[t] \in {"exited", "crashed"} =>
            (tpc[t] = "exited" /\ should_exit[t] = "True")

\* C11: a well-formed record whose kind is neither register nor push_update
\* changes nothing: the sender stays open with its subscription, every
\* other subscription, the roster and the queue are as before, and nothing
\* is sent back.
C11_OtherKindNoChange ==
    [][last'.op = "handle_read_other" =>
          /\ UNCHANGED <<status, registration, clients, queue>>
          /\ status'[last'.conn] = "open"
          /\ last'.writes = <<>>
      ]_vars

\* C11 witness: a registered subscriber with an event waiting in the queue
\* has just sent a record of unknown kind.
C11_Witness ==
    /\ last.op = "handle_read_other"
    /\ registration[last.conn] # None
    /\ last.conn \in Range(clients)
    /\ queue # <<>>

\* C12: the roster holds exactly the live connections: every member is an
\* open connection, no connection appears twice, and clients.remove is never
\* run for a connection that is not in the roster.
C12_RosterInvariant ==
    /\ \A i \in DOMAIN clients : status[clients[i]] = "open"
    /\ \A i, j \in DOMAIN clients : clients[i] = clients[j] => i = j
    /\ last.err # "ValueError"

\* C13: the dispatch queue is the only process-wide structure the debugger
\* (producer) thread shares with the I/O thread: no operation of the debugger
\* thread (update on a stop event, status) reads or writes the roster or a
\* connection's registration.
C13_OnlyQueueShared ==
    last.op \in {"update", "status"} => last.touched \subseteq {"queue"}

\* C14: on every stop event exactly one (connection, update) pair is put on
\* the queue for each roster connection whose trigger is on-stop, carrying
\* the data of that connection's own category, and none for a connection
\* whose trigger is not on-stop.
C14_OnePerStopSubscriber ==
    [][last'.op = "update" =>
         LET n     == Len(queue)
             added == SubSeq(queue', n + 1, Len(queue'))
         IN  /\ Len(queue') >= n
             /\ SubSeq(queue', 1, n) = queue
             /\ \A c \in Range(clients) :
                   LET k == Cardinality({i \in DOMAIN added : added[i].client = c})
                   IN  IF registration[c] # None /\ registration[c].update_on = "stop"
                         THEN /\ k = 1
                              /\ \A i \in DOMAIN added :
                                    added[i].client = c =>
                                        /\ added[i].cat = registration[c].type
                                        /\ added[i].data = Snapshot
                         ELSE k = 0
             /\ \A i \in DOMAIN added : added[i].client \in Range(clients)
      ]_vars

\* C15: a stop event that finds an accepted but unregistered connection in
\* the roster completes without error, and every registered on-stop
\* subscriber still gets its event.
C15_UnregisteredSkipped ==
    [][(last'.op = "update" /\ \E c \in Range(clients) : registration[c] = None) =>
         /\ last'.err = ""
         /\ \A c \in Range(clients) :
               (registration[c] # None /\ registration[c].update_on = "stop") =>
                   \E i \in (Len(queue) + 1)..Len(queue') : queue'[i].client = c
      ]_vars

\* an event for connection c is waiting on the queue
Queued(c) == \E i \in DOMAIN queue : queue[i].client = c

\* the most recent operation wrote an event to the socket of connection c
Written(c) ==
    /\ last.op = "send_event"
    /\ last.conn = c
    /\ \E w \in LastWrites : w.to = c /\ w.msg_type = "update" /\ w.outcome = "ok"

\* C16: every event put on the queue is consumed by the dispatch loop and,
\* while the broker keeps running and the target connection stays open, is
\* eventually written to the target's socket.
C16_QueuedEventuallyWritten ==
    \A c \in 1..MaxConns :
        Queued(c) ~> (Written(c) \/ status[c] # "open" \/ ~running)

\* C17: no broker state survives a restart: when start has created a broker
\* thread, the roster is empty, the queue holds no event and the new thread's
\* shutdown flag is not set.
C17_NothingSurvivesRestart ==
    (last.op = "start" /\ last.err = "") =>
        /\ clients = <<>>
        /\ queue = <<>>
        /\ should_exit[thread] # "True"

\* the ServerThread objects whose run() has not ended, and the listeners
\* that are open
AliveThreads  == {t \in Threads : isAlive(t)}
OpenListeners == {t \in Threads : serv[t] = "open"}

\* C18: at any time at most one broker I/O thread is alive and at most one
\* listener is open, whatever start and stop commands were given, a stop
\* whose join timed out included.
C18_OneThreadOneListener ==
    /\ Cardinality(AliveThreads) <= 1
    /\ Cardinality(OpenListeners) <= 1

\* C19: file-bridge protocol order. One run opens one connection and sends
\* at most one record; once the connection is closed, exactly one push_update
\* has been sent and the broker's ack for it has been received.
C19_BridgeProtocolOrder ==
    /\ proxy.opened = 1
    /\ Len(proxy.sent) <= 1
    /\ \A i \in DOMAIN proxy.sent : proxy.sent[i].msg_type = "push_update"
    /\ proxy.pc = "closed" =>
          /\ Len(proxy.sent) = 1
          /\ proxy.got = <<"ack">>

\* C20: file-bridge partial-failure tolerance. Whichever register files fail
\* to read, once handle_connect has run for a known type the push has been
\* sent; a register push holds, for every register of REGISTERS, the decoded
\* integer of its own file or the unavailable marker.
C20_PartialFailureTolerated ==
    (proxy.pc # "connecting" /\ proxy.type \in {"reg", "stack"} /\ proxy.stack.exists) =>
        /\ Len(proxy.sent) = 1
        /\ proxy.type = "reg" =>
              /\ DOMAIN proxy.sent[1].data = RegNames
              /\ \A r \in RegNames :
                    proxy.sent[1].data[r] =
                        IF Readable(Format(r), proxy.files[r])
                          THEN Val(unpack(proxy.files[r].bytes))
                          ELSE fail

\* the register push a gdb6proxy run of type reg has sent
RegisterPush == proxy.sent[1].data

\* the value sum(b_i * 256^i) of 8 bytes, in base-2^24 digits
Sum8(b) ==
    <<b[1] + 256 * b[2] + 65536 * b[3],
      b[4] + 256 * b[5] + 65536 * b[6],
      b[7] + 256 * b[8]>>

\* the value sum(b_i * 256^i) of 4 bytes, in base-2^24 digits
Sum4(b) == <<b[1] + 256 * b[2] + 65536 * b[3], b[4], 0>>

\* C21: file-bridge decoding. In a register push the file of a general
\* register holding exactly 8 bytes b0..b7 is pushed as sum(b_i * 256^i), the
\* eflags file is decoded the same way from exactly 4 bytes, and a file of
\* any other length gives the unavailable marker.
C21_LittleEndianDecoding ==
    (proxy.type = "reg" /\ proxy.pc # "connecting") =>
        \A r \in RegNames :
            LET f == proxy.files[r]
                n == IF r = "eflags" THEN 4 ELSE 8
            IN  f.exists =>
                    RegisterPush[r] =
                        IF Len(f.bytes) # n THEN fail
                        ELSE IF n = 8 THEN Val(Sum8(f.bytes)) ELSE Val(Sum4(f.bytes))

\* C21 witness: a register push has been sent in which a general register's
\* file held 34 12 00 00 00 00 00 00 and was pushed as 0x1234
C21_Witness ==
    /\ proxy.type = "reg"
    /\ Len(proxy.sent) = 1
    /\ \E r \in RegNames \ {"eflags"} :
          /\ proxy.files[r] = File(<<52, 18, 0, 0, 0, 0, 0, 0>>)
          /\ RegisterPush[r] = Val(<<4660, 0, 0>>)
    /\ RegisterPush["eflags"] = Val(<<2, 0, 0>>)

\* the first record of what Client.handle_read is about to receive cannot
\* be deserialized, or cannot be rendered
MalformedNext ==
    /\ view.stream # <<>>
    /\ Head(view.stream).kind = "garbage" \/ ~Head(view.stream).renderable

\* C22: subscriber-side robustness. When the subscriber receives data that
\* cannot be deserialized, or whose rendering fails, the failure is logged,
\* the view is left as it was and the connection stays open and in its read
\* loop, so that a later update is still rendered.
C22_MalformedIgnored ==
    [][(Client_handle_read /\ MalformedNext) =>
          /\ view'.logged = view.logged + 1
          /\ view'.screen = view.screen
          /\ view'.conn = "open"
          /\ view'.pc = "loop"
      ]_vars

\* the register record Client.register sends for the view's config
RegisterRecord == Rec("register", view.config.type, view.config.update_on, "")

\* the update records among those the subscriber has received so far
UpdatesReceived == SelectSeq(view.received, LAMBDA r : r.kind = "update")

\* C23: subscriber protocol order. The subscriber sends exactly one register
\* record, carrying its category and refresh trigger, on connecting and
\* before any render, and sends nothing further; each update record it has
\* received has led to exactly one call of render with that record.
C23_SubscriberProtocolOrder ==
    /\ view.pc # "new" => view.sent = <<RegisterRecord>>
    /\ view.pc = "new" => view.sent = <<>> /\ view.renders = <<>>
    /\ view.renders = UpdatesReceived

\* C24: handling a register record replaces the sender's subscription with
\* the category and trigger of the record and changes nothing else: the other
\* connections' subscriptions, the roster, the sockets and the queue are
\* unchanged, and nothing is written back to the sender.
C24_RegisterReplacesOnly ==
    [][last'.op = "handle_register" =>
          /\ registration'[last'.conn] =
                [type |-> last'.cat, update_on |-> last'.trigger]
          /\ \A d \in Conns : d # last'.conn => registration'[d] = registration[d]
          /\ UNCHANGED <<clients, status, queue>>
          /\ last'.writes = <<>>
      ]_vars

\* C24 witness: a connection has registered again, with another category
\* than the one an event still queued for it was made for, while another
\* connection of the roster holds a subscription.
C24_Witness ==
    /\ last.op = "handle_register"
    /\ registration[last.conn] = [type |-> last.cat, update_on |-> last.trigger]
    /\ \E i \in DOMAIN queue :
          queue[i].client = last.conn /\ queue[i].tcat \notin {"", last.cat}
    /\ \E d \in Range(clients) : d # last.conn /\ registration[d] # None

\* C25: the lifecycle of a broker-side connection is monotonic. It holds no
\* subscription from accept until a register record of its own is handled;
\* a subscription, once held, is never taken away; a closed connection never
\* becomes open again and never re-enters the roster.
C25_LifecycleMonotonic ==
    [][\A c \in Conns :
          /\ status[c] = "fresh" => registration[c] = None /\ c \notin Range(clients)
          /\ (status[c] = "fresh" /\ status'[c] # "fresh") =>
                /\ status'[c] = "open"
                /\ registration'[c] = None
          /\ (registration[c] = None /\ registration'[c] # None) =>
                /\ last'.op = "handle_register"
                /\ last'.conn = c
                /\ status[c] = "open"
          /\ registration[c] # None => registration'[c] # None
          /\ status[c] = "open" => status'[c] # "fresh"
          /\ status[c] = "closed" =>
                /\ status'[c] = "closed"
                /\ c \notin Range(clients')
      ]_vars

\* C25 witness: a connection that registered has been closed and is out of
\* the roster, and the broker has run an operation since, while another
\* connection is open and registered.
C25_Witness ==
    \E c, d \in Conns :
        /\ status[c] = "closed" /\ registration[c] # None /\ c \notin Range(clients)
        /\ last.conn # c
        /\ status[d] = "open" /\ registration[d] # None /\ d \in Range(clients)

\* C26: a shutdown request is never lost. However stop interleaves with the
\* start-up of the I/O thread, set_should_exit(True) succeeds without error,
\* and a flag that stop has set to True is still True when the loop tests it.
C26_ShutdownRequestKept ==
    [][/\ last'.op = "stop" => last'.err # "AttributeError"
       /\ \A t \in Threads : should_exit[t] = "True" => should_exit'[t] = "True"
      ]_vars

\* the events waiting for connection c, in queue order
ForConn(q, c) == SelectSeq(q, LAMBDA it : it.client = c)

\* C27: per-subscriber ordering. The events addressed to one connection
\* are written to its socket in the order in which they were put on the
\* queue, whether update() or a push fan-out put them: a put adds behind the
\* events already waiting for the connection, the event taken is the one
\* that has waited longest, and a write to a connection is never made while
\* an event taken earlier for the same connection is still to be written.
C27_PerSubscriberOrder ==
    [][/\ \A c \in Conns :
             LET old == ForConn(queue, c)
                 new == ForConn(queue', c)
             IN  \/ /\ Len(new) >= Len(old)
                    /\ SubSeq(new, 1, Len(old)) = old
                 \/ /\ old # <<>>
                    /\ new = Tail(old)
                    /\ Len(held') = Len(held) + 1
                    /\ SubSeq(held', 1, Len(held)) = held
                    /\ held'[Len(held')].item = Head(old)
       /\ last'.op = "send_event" =>
             \E i \in DOMAIN held :
                 /\ held' = SubSeq(held, 1, i - 1) \o SubSeq(held, i + 1, Len(held))
                 /\ held[i].item.client = last'.conn
                 /\ Len(last'.writes) = 1
                 /\ last'.writes[1].to = last'.conn
                 /\ last'.writes[1].data = held[i].item.data
                 /\ last'.writes[1].cat = held[i].item.cat
                 /\ last'.writes[1].src = held[i].item.src
                 /\ \A j \in 1..(i - 1) : held[j].item.client # last'.conn
      ]_vars

\* C28: ack precedes delivery. The ack for a push_update is written to the
\* producer while the push is being handled, before any update fanned out
\* from that push is written to a subscriber: no event of a push is handed
\* to a socket while the ack of that push is still to be sent.
C28_AckPrecedesDelivery ==
    [][last'.op = "send_event" =>
          \A i \in DOMAIN held :
              (held[i] \notin Range(held') /\ held[i].item.src = "push") =>
                  \A t \in Threads :
                      inpush[t] = None \/ inpush[t].id # held[i].item.push
      ]_vars

====
